---- MODULE Spec2Model ----
(***************************************************************************)
(* Claudix: the cc-switch integration glue of the VS Code extension.       *)
(*                                                                         *)
(*   Change Watcher + reload orchestration  (FileWatcherService,           *)
(*                                            extension.ts)  -> Spec       *)
(*   Change Watcher, several registrations side by side   -> SpecWatches  *)
(*   Session Reloader  (ClaudeAgentService.reload)         -> SpecReload   *)
(*   Provider Reader  (CCSwitchService)                      -> SpecReader *)
(*   Launch of the companion application                                   *)
(*     (CCSwitchService.openCCSwitch, handleOpenCCSwitch)    -> SpecOpen   *)
(*   Presentation Host  (WebViewService)                     -> SpecWeb    *)
(***************************************************************************)
EXTENDS Integers, Sequences, FiniteSets, TLC

VARIABLES
    \* ---- Change Watcher (FileWatcherService) and its host ----
    now,          \* Date.now(), in ms
    claudeSettingsPath, \* this.claudeSettingsPath, set by the constructor
    dirExists,    \* per watch: fs.existsSync(path.dirname(filePath))
    handle,       \* per watch: the vscode.Disposable watchFile returned
    watcherAlive, \* per watch: the FileSystemWatcher exists and is not disposed
    subs,         \* per watch: the live subscriptions among onDidCreate/Change/Delete
    lastModTime,  \* per watch: the closure variable lastModTime
    queue,        \* raw filesystem events the host has observed and not yet delivered
    callCount,    \* per watch: how many times its callback has been invoked
    lastCall,     \* per watch: the change event of the latest invocation
    prompts,      \* informational prompts shown by the settings callback
    promptsOpen,  \* prompts the user has neither answered nor dismissed
    reloads,      \* calls of claudeAgentService.reload()
    last,         \* the last raw event delivered: watch, raw kind, what became of it
    \* ---- Provider Reader (CCSwitchService) and the store it reads ----
    store,        \* ~/.cc-switch/cc-switch.db: the file and its providers table
    openConns,    \* better-sqlite3 connections opened and not closed
    ret,          \* the outcome of the last Provider Reader call on the store as it is
    \* ---- openCCSwitch() and handleOpenCCSwitch ----
    platform,     \* process.platform
    opens,        \* one record per handleOpenCCSwitch request: command, launch, promise, response
    uncaught,     \* exceptions thrown out of exec callbacks, caught by nobody
    logged,       \* log lines written by openCCSwitch(), per level
    \* ---- Presentation Host (WebViewService) ----
    webview,      \* this.webview: the surface bound last, or "none"
    listeners,    \* per surface: onDidReceiveMessage listeners registered on it
    messageHandler, \* this.messageHandler, or "none"
    outbox,       \* per surface: what webview.postMessage was given, in order
    forwarded,    \* per handler: the messages it was invoked with, in order
    setCalls,     \* the handlers passed to setMessageHandler so far, in order
    posts,        \* postMessage calls made so far
    lastPost,     \* the last postMessage call: its payload, whether it threw
    inbound,      \* messages received from surfaces so far
    lastInbound,  \* the last message received from a surface
    \* ---- Session Reloader (ClaudeAgentService.reload) ----
    sessions,     \* per session identifier: "none", "active" or "closed"
    interactions, \* user-initiated interactions that started a conversation
    pendingReloads, \* reload() calls not yet completed: the sessions active at each call
    lastReload    \* the last reload() completed: the sessions active at its call, whether it threw

watchVars == <<now, claudeSettingsPath, dirExists, handle, watcherAlive, subs, lastModTime,
               queue, callCount, lastCall, prompts, promptsOpen, reloads, last>>

readerVars == <<store, openConns, ret>>

openVars == <<platform, opens, uncaught, logged>>

webVars == <<webview, listeners, messageHandler, outbox, forwarded, setCalls,
             posts, lastPost, inbound, lastInbound>>

sessionVars == <<sessions, interactions, pendingReloads, lastReload>>

vars == <<watchVars, readerVars, openVars, webVars, sessionVars>>

----------------------------------------------------------------------------
(* Bounds of the model *)

\* Date.now() when the extension activates (ms; any wall clock is far above debounceMs)
StartTime == 1000000
\* how long after activation the clock is followed (ms)
MaxElapsed == 1200
\* raw events the host may hold undelivered
MaxQueue == 2

\* assistant sessions that may ever be started are 1..MaxSessions
MaxSessions == 4
\* reload() calls followed when the host calls it directly
MaxReloads == 4

\* resolveWebviewView calls followed per surface
MaxBinds == 2

\* the clock advances between the two readings of handleChange, Date.now()
\* and new Date(), by one of these (ms): nothing, or what a slow log sink takes
ClockAdvances == {0, 100}

\* the clock advances between two turns of the event loop by one of these (ms)
TickSteps == {200, 300}
\* provider identifiers the store may hold are 1..MaxId
MaxId == 2
\* handleOpenCCSwitch requests followed
MaxOpens == 3
\* postMessage calls followed
MaxPosts == 2
\* inbound messages followed
MaxInbound == 1
\* setMessageHandler calls followed
MaxSets == 2

----------------------------------------------------------------------------
(* Provider Reader *)

\* JavaScript's null (an SQL NULL read by better-sqlite3) and undefined
NULL == "<null>"
UNDEFINED == "<undefined>"

\* whether a column value is truthy (neither null, undefined nor the empty string)
Truthy(x) == x \notin {NULL, UNDEFINED, ""}

\* x || d
OrElse(x, d) == IF Truthy(x) THEN x ELSE d

Ids == 1..MaxId

\* sample contents of the models column
ModelsValid == "{\"sonnet\":\"s4\"}"
ModelsInvalid == "{sonnet"
ModelsTexts == {NULL, ModelsInvalid, ModelsValid}

\* sample credentials of a row: api_key and base_url
Credentials == {[api_key |-> "sk-1", base_url |-> NULL],
                [api_key |-> NULL, base_url |-> "https://proxy"]}

\* what the owning tool may store under one identifier: the columns of its
\* row other than id, or NoRow
NoRow == [name |-> NULL, api_key |-> NULL, base_url |-> NULL, is_active |-> 0,
          preset |-> NULL, models |-> NULL, created_at |-> NULL, updated_at |-> NULL]

Rows ==
    {[name |-> n, api_key |-> c.api_key, base_url |-> c.base_url, is_active |-> a,
      preset |-> NULL, models |-> m, created_at |-> "2025-01-01", updated_at |-> "2025-01-02"] :
        n \in {NULL, "A"}, c \in Credentials, a \in {0, 1}, m \in ModelsTexts}

Tables == [Ids -> Rows \cup {NoRow}]
EmptyTable == [i \in Ids |-> NoRow]

\* the row of identifier i as the query returns it
RowOf(table, i) ==
    [id |-> i, name |-> table[i].name, api_key |-> table[i].api_key,
     base_url |-> table[i].base_url, is_active |-> table[i].is_active,
     preset |-> table[i].preset, models |-> table[i].models,
     created_at |-> table[i].created_at, updated_at |-> table[i].updated_at]

\* file: "absent" (no database file), "ok", "unopenable" (new Database throws),
\* "notable" (the file opens, the query throws)
AbsentStore == [file |-> "absent", table |-> EmptyTable]
BrokenStores == {[file |-> f, table |-> EmptyTable] : f \in {"unopenable", "notable"}}

PresentIds(table) == {i \in Ids : table[i] # NoRow}

\* JSON.parse on the sample texts: the parsed value, or thrown
JsonParse(text) ==
    IF text = ModelsValid
    THEN [threw |-> FALSE, value |-> "object{sonnet: s4}"]
    ELSE [threw |-> TRUE, value |-> UNDEFINED]

\* a parseModels that lets the SyntaxError of JSON.parse escape
ParseModelsUncaught(modelsJson) == JsonParse(modelsJson)

\* parseModels: try { return JSON.parse(modelsJson) } catch { return undefined }
ParseModels(modelsJson) ==
    LET p == JsonParse(modelsJson)
    IN IF p.threw THEN [threw |-> FALSE, value |-> UNDEFINED] ELSE p

\* isInstalled(): fs.existsSync(this.dbPath)
IsInstalled(st) == st.file # "absent"

\* new Database(this.dbPath, { readonly: true })
OpenDatabase(st) == [threw |-> st.file = "unopenable"]

RECURSIVE Ascending(_, _)
Ascending(table, ids) ==
    IF ids = {} THEN <<>>
    ELSE LET m == CHOOSE i \in ids : \A j \in ids : i <= j
         IN <<RowOf(table, m)>> \o Ascending(table, ids \ {m})

RECURSIVE Descending(_, _)
Descending(table, ids) ==
    IF ids = {} THEN <<>>
    ELSE LET m == CHOOSE i \in ids : \A j \in ids : i >= j
         IN <<RowOf(table, m)>> \o Descending(table, ids \ {m})

\* the query with its rows in descending identifier order
QueryAllDescending(st) ==
    IF st.file = "notable"
    THEN [threw |-> TRUE, rows |-> <<>>]
    ELSE [threw |-> FALSE, rows |-> Descending(st.table, PresentIds(st.table))]

\* db.prepare('SELECT * FROM providers ORDER BY id').all()
QueryAll(st) ==
    IF st.file = "notable"
    THEN [threw |-> TRUE, rows |-> <<>>]
    ELSE [threw |-> FALSE, rows |-> Ascending(st.table, PresentIds(st.table))]

\* the object literal of rows.map; threw when building it throws
MapRow(row) ==
    LET models == IF Truthy(row.models)
                  THEN ParseModels(row.models)
                  ELSE [threw |-> FALSE, value |-> UNDEFINED]
    IN [threw |-> models.threw,
        value |-> [id |-> row.id,
                   name |-> OrElse(row.name, "Unknown"),
                   apiKey |-> OrElse(row.api_key, ""),
                   baseUrl |-> OrElse(row.base_url, UNDEFINED),
                   isActive |-> (row.is_active = 1),
                   preset |-> OrElse(row.preset, UNDEFINED),
                   models |-> models.value,
                   createdAt |-> row.created_at,
                   updatedAt |-> row.updated_at]]

\* rows.map(row => ...)
MapRows(rows) ==
    LET mapped == [k \in 1..Len(rows) |-> MapRow(rows[k])]
    IN [threw |-> \E k \in 1..Len(rows) : mapped[k].threw,
        value |-> [k \in 1..Len(rows) |-> mapped[k].value]]

\* the inner try without its finally: db.close() only after a successful read
ReadAndCloseOnSuccess(st) ==
    LET q == QueryAll(st)
        m == MapRows(q.rows)
    IN IF q.threw \/ m.threw
       THEN [threw |-> TRUE, value |-> <<>>, closed |-> 0]
       ELSE [threw |-> FALSE, value |-> m.value, closed |-> 1]

\* the inner try { query; map; return providers } finally { db.close() }
ReadAndClose(st) ==
    LET q == QueryAll(st)
        m == MapRows(q.rows)
    IN IF q.threw \/ m.threw
       THEN [threw |-> TRUE, value |-> <<>>, closed |-> 1]
       ELSE [threw |-> FALSE, value |-> m.value, closed |-> 1]

\* a getProviders() whose outer try has no catch
GetProvidersUncaught(st) ==
    IF ~IsInstalled(st)
    THEN [threw |-> FALSE, value |-> <<>>, opened |-> 0, closed |-> 0]
    ELSE IF OpenDatabase(st).threw
    THEN [threw |-> TRUE, value |-> <<>>, opened |-> 0, closed |-> 0]
    ELSE LET r == ReadAndClose(st)
         IN [threw |-> r.threw, value |-> r.value, opened |-> 1, closed |-> r.closed]

\* getProviders(): the records, whether it threw, the connections it opened and closed
GetProviders(st) ==
    IF ~IsInstalled(st)
    THEN [threw |-> FALSE, value |-> <<>>, opened |-> 0, closed |-> 0]
    ELSE IF OpenDatabase(st).threw
    THEN [threw |-> FALSE, value |-> <<>>, opened |-> 0, closed |-> 0]
    ELSE LET r == ReadAndClose(st)
         IN [threw |-> FALSE, value |-> IF r.threw THEN <<>> ELSE r.value,
             opened |-> 1, closed |-> r.closed]

NoProvider == [id |-> 0, name |-> NULL, apiKey |-> NULL, baseUrl |-> NULL, isActive |-> FALSE,
               preset |-> NULL, models |-> NULL, createdAt |-> NULL, updatedAt |-> NULL]

\* providers.find(p => p.isActive), NoProvider standing for undefined
Find(providers) ==
    LET hits == {k \in 1..Len(providers) : providers[k].isActive}
    IN IF hits = {} THEN NoProvider
       ELSE providers[CHOOSE k \in hits : \A j \in hits : k <= j]

\* getActiveProvider(): active || null, NoProvider standing for null
GetActiveProvider(st) ==
    LET g == GetProviders(st)
    IN [threw |-> g.threw,
        value |-> IF g.threw THEN NoProvider ELSE Find(g.value),
        opened |-> g.opened, closed |-> g.closed]

\* activeProvider: null
NullProvider == [id |-> 0, name |-> NULL, baseUrl |-> NULL]

NoStatus == [type |-> "none", installed |-> FALSE, activeProvider |-> NullProvider]

\* a response that carries the key of the provider along
ProviderSummaryWithKey(p) ==
    [id |-> p.id, name |-> p.name, baseUrl |-> p.baseUrl, apiKey |-> p.apiKey]

\* the object literal handleGetCCSwitchStatus builds from the active provider
ProviderSummary(p) == [id |-> p.id, name |-> p.name, baseUrl |-> p.baseUrl]

\* handleGetCCSwitchStatus: its response, whether it threw, how often it
\* called getActiveProvider(), the connections that call opened and closed
HandleGetCCSwitchStatus(st) ==
    LET installed == IsInstalled(st)
        g == IF installed
             THEN GetActiveProvider(st)
             ELSE [threw |-> FALSE, value |-> NoProvider, opened |-> 0, closed |-> 0]
    IN [threw |-> g.threw,
        response |-> [type |-> "get_ccswitch_status_response",
                      installed |-> installed,
                      activeProvider |-> IF g.value # NoProvider
                                         THEN ProviderSummary(g.value)
                                         ELSE NullProvider],
        reads |-> IF installed THEN 1 ELSE 0,
        opened |-> g.opened, closed |-> g.closed]

NoRet == [op |-> "none", threw |-> FALSE, bool |-> FALSE, list |-> <<>>, one |-> NoProvider,
          status |-> NoStatus, reads |-> 0]

ReaderIdle ==
    /\ openConns = 0
    /\ ret = NoRet

CallIsInstalled ==
    /\ ret' = [op |-> "isInstalled", threw |-> FALSE, bool |-> IsInstalled(store),
               list |-> <<>>, one |-> NoProvider, status |-> NoStatus, reads |-> 0]
    /\ UNCHANGED <<store, openConns>>
    /\ UNCHANGED <<watchVars, openVars, webVars, sessionVars>>

CallGetProviders ==
    /\ LET g == GetProviders(store)
       IN /\ ret' = [op |-> "getProviders", threw |-> g.threw, bool |-> FALSE,
                     list |-> g.value, one |-> NoProvider,
                     status |-> NoStatus, reads |-> 0]
          /\ openConns' = openConns + g.opened - g.closed
    /\ UNCHANGED store
    /\ UNCHANGED <<watchVars, openVars, webVars, sessionVars>>

CallGetActiveProvider ==
    /\ LET g == GetActiveProvider(store)
       IN /\ ret' = [op |-> "getActiveProvider", threw |-> g.threw, bool |-> FALSE,
                     list |-> <<>>, one |-> g.value,
                     status |-> NoStatus, reads |-> 0]
          /\ openConns' = openConns + g.opened - g.closed
    /\ UNCHANGED store
    /\ UNCHANGED <<watchVars, openVars, webVars, sessionVars>>

\* the webview asks for the status: handleGetCCSwitchStatus answers
CallGetCCSwitchStatus ==
    /\ LET h == HandleGetCCSwitchStatus(store)
       IN /\ ret' = [op |-> "getCCSwitchStatus", threw |-> h.threw, bool |-> FALSE,
                     list |-> <<>>, one |-> NoProvider,
                     status |-> h.response, reads |-> h.reads]
          /\ openConns' = openConns + h.opened - h.closed
    /\ UNCHANGED store
    /\ UNCHANGED <<watchVars, openVars, webVars, sessionVars>>

\* the owning tool switches the active flag of one provider
ToggleActive(i) ==
    /\ store.file = "ok"
    /\ store.table[i] # NoRow
    /\ store' = [store EXCEPT !.table[i].is_active = 1 - @]
    /\ ret' = NoRet
    /\ UNCHANGED openConns
    /\ UNCHANGED <<watchVars, openVars, webVars, sessionVars>>

\* the owning tool deletes the row of one identifier
DeleteRow(i) ==
    /\ store.file = "ok"
    /\ store.table[i] # NoRow
    /\ store' = [store EXCEPT !.table[i] = NoRow]
    /\ ret' = NoRet
    /\ UNCHANGED openConns
    /\ UNCHANGED <<watchVars, openVars, webVars, sessionVars>>

\* the database file is created, removed, or replaced by one that cannot be
\* opened or has no providers table
ReplaceFile(st) ==
    /\ store.file # st.file
    /\ store' = st
    /\ ret' = NoRet
    /\ UNCHANGED openConns
    /\ UNCHANGED <<watchVars, openVars, webVars, sessionVars>>

----------------------------------------------------------------------------
(* Launch of the companion application *)

Platforms == {"darwin", "win32", "linux"}

\* the command openCCSwitch() builds for process.platform
CommandFor(p) ==
    IF p = "darwin" THEN "open -a \"CC-Switch\" || open -a \"cc-switch\""
    ELSE IF p = "win32" THEN "start \"\" \"CC-Switch.exe\" || start \"\" \"cc-switch.exe\""
    ELSE "cc-switch || CC-Switch || flatpak run com.ccswitch.app"

\* the message of the Error the exec callback throws (in the source, in Chinese:
\* "cannot open CC-Switch, please check that the application is installed")
LaunchFailedMessage == "cannot open CC-Switch, check that it is installed"
\* the message of an error child_process.exec itself throws
SpawnErrorMessage == "spawn error"

\* openCCSwitch(): exec(command, callback) inside try/catch. exec either throws
\* (spawn = "throws": caught, logged, rethrown: the promise rejects) or returns
\* with the child started; the async function then returns, and its promise is
\* fulfilled, before the callback runs.
OpenCCSwitch(p, spawn) ==
    IF spawn = "throws"
    THEN [rejected |-> TRUE, error |-> SpawnErrorMessage, command |-> CommandFor(p),
          launch |-> "notstarted"]
    ELSE [rejected |-> FALSE, error |-> "none", command |-> CommandFor(p),
          launch |-> "running"]

\* the response handleOpenCCSwitch makes once the promise of openCCSwitch()
\* is settled: success: true, or on a rejection success: false with the
\* error's message
ResponseOf(rejected, error) ==
    IF rejected
    THEN [success |-> FALSE, error |-> error]
    ELSE [success |-> TRUE, error |-> "none"]

NoResponse == [success |-> FALSE, error |-> "pending"]

\* the requests whose handler has not resumed after its await
Awaiting == {k \in 1..Len(opens) : ~opens[k].responded}

\* handleOpenCCSwitch up to its await: openCCSwitch() has run exec (and, when
\* exec threw, logged the error and rejected), the promise is settled, and
\* the handler has handed a pending promise back to its caller
HandleOpenCCSwitch(spawn) ==
    /\ Len(opens) < MaxOpens
    /\ LET o == OpenCCSwitch(platform, spawn)
       IN /\ opens' = Append(opens,
                 [command |-> o.command, launch |-> o.launch,
                  rejected |-> o.rejected, error |-> o.error,
                  responded |-> FALSE, response |-> NoResponse])
          /\ logged' = IF o.rejected THEN [logged EXCEPT !.error = @ + 1] ELSE logged
    /\ UNCHANGED <<platform, uncaught>>
    /\ UNCHANGED <<watchVars, readerVars, webVars, sessionVars>>

\* the handler resumes after its await, in a microtask, and returns the
\* response; the handlers resume in the order in which they awaited
Respond ==
    /\ Awaiting # {}
    /\ LET k == CHOOSE k \in Awaiting : \A j \in Awaiting : k <= j
       IN opens' = [opens EXCEPT ![k].responded = TRUE,
                                 ![k].response = ResponseOf(opens[k].rejected, opens[k].error)]
    /\ UNCHANGED <<platform, uncaught, logged>>
    /\ UNCHANGED <<watchVars, readerVars, webVars, sessionVars>>

\* how a launch ends for the callback: the command ran and exited with
\* success ("started") or with an error ("exited"), or the child could not be
\* spawned at all ("nospawn": EMFILE, ENOENT, ...), which exec reports without
\* throwing
LaunchEnds == {"started", "exited", "nospawn"}

\* when exec may run its callback. The end of a command that ran is reported
\* from a later turn of the event loop than the one that made the request:
\* the handler of that request has resumed from its await by then, while the
\* handler of a request made later, in the turn in which the command ends,
\* may still be at its await. A spawn failure is reported through
\* process.nextTick, and the tick queue is drained between tasks and
\* microtask runs: the callback may also come before the handler of its own
\* request resumes
CallbackMayRun(k, end) ==
    end = "nospawn" \/ k \notin Awaiting

\* the callback exec runs: with an error it warns and throws, from a callback
\* no try block and no promise surrounds; without, it logs
ExecCallback(k, end) ==
    /\ k \in 1..Len(opens)
    /\ opens[k].launch = "running"
    /\ CallbackMayRun(k, end)
    /\ opens' = [opens EXCEPT ![k].launch = IF end = "started" THEN "started" ELSE "failed"]
    /\ IF end # "started"
       THEN /\ logged' = [logged EXCEPT !.warn = @ + 1]
            /\ uncaught' = uncaught + 1
       ELSE /\ logged' = [logged EXCEPT !.info = @ + 1]
            /\ UNCHANGED uncaught
    /\ UNCHANGED platform
    /\ UNCHANGED <<watchVars, readerVars, webVars, sessionVars>>

OpenIdle ==
    /\ platform = "linux"
    /\ opens = <<>>
    /\ uncaught = 0
    /\ logged = [info |-> 0, warn |-> 0, error |-> 0]

----------------------------------------------------------------------------
(* Presentation Host *)

Surfaces == {"view1", "view2"}
Handlers == {"h1", "h2"}
Payloads == {"{foo:1}", "{bar:2}"}
\* messages a surface sends: objects with a type field
Inbound == {[type |-> "ping"], [type |-> "get_ccswitch_status_request"]}

\* an envelope with the tag of the other direction
EnvelopeToExtension(message) == [type |-> "to-extension", message |-> message]

\* the object postMessage hands to webview.postMessage
Envelope(message) == [type |-> "from-extension", message |-> message]

\* a setter that keeps the handler registered first
KeepFirstHandler(current, handler) == IF current = "none" THEN handler ELSE current

\* setMessageHandler: this.messageHandler = handler
AssignHandler(current, handler) == handler

NoPost == [payload |-> "none", threw |-> FALSE]
NoInbound == [type |-> "none"]

\* resolveWebviewView(webviewView): stores the surface and registers one more
\* onDidReceiveMessage listener on it, whether or not it was resolved before;
\* no listener is ever removed
ResolveWebviewView(s) ==
    /\ listeners[s] < MaxBinds
    /\ webview' = s
    /\ listeners' = [listeners EXCEPT ![s] = @ + 1]
    /\ UNCHANGED <<messageHandler, outbox, forwarded, setCalls, posts, lastPost, inbound,
                   lastInbound>>
    /\ UNCHANGED <<watchVars, readerVars, openVars, sessionVars>>

\* postMessage(message): throws when this.webview is unset, else posts the envelope
PostMessage(payload) ==
    /\ posts < MaxPosts
    /\ posts' = posts + 1
    /\ IF webview = "none"
       THEN /\ lastPost' = [payload |-> payload, threw |-> TRUE]
            /\ UNCHANGED outbox
       ELSE /\ lastPost' = [payload |-> payload, threw |-> FALSE]
            /\ outbox' = [outbox EXCEPT ![webview] = Append(@, Envelope(payload))]
    /\ UNCHANGED <<webview, listeners, messageHandler, forwarded, setCalls, inbound, lastInbound>>
    /\ UNCHANGED <<watchVars, readerVars, openVars, sessionVars>>

SetMessageHandler(h) ==
    /\ Len(setCalls) < MaxSets
    /\ messageHandler' = AssignHandler(messageHandler, h)
    /\ setCalls' = Append(setCalls, h)
    /\ UNCHANGED <<webview, listeners, outbox, forwarded, posts, lastPost, inbound, lastInbound>>
    /\ UNCHANGED <<watchVars, readerVars, openVars, sessionVars>>

\* a surface sends a message: each listener registered on it logs the type and,
\* if this.messageHandler is set, invokes it with the message
ReceiveMessage(s, m) ==
    /\ listeners[s] > 0
    /\ inbound < MaxInbound
    /\ inbound' = inbound + 1
    /\ lastInbound' = m
    /\ forwarded' = IF messageHandler = "none"
                    THEN forwarded
                    ELSE [forwarded EXCEPT ![messageHandler] =
                             @ \o [k \in 1..listeners[s] |-> m]]
    /\ UNCHANGED <<webview, listeners, messageHandler, outbox, setCalls, posts, lastPost>>
    /\ UNCHANGED <<watchVars, readerVars, openVars, sessionVars>>

WebIdle ==
    /\ webview = "none"
    /\ listeners = [s \in Surfaces |-> 0]
    /\ messageHandler = "none"
    /\ outbox = [s \in Surfaces |-> <<>>]
    /\ forwarded = [h \in Handlers |-> <<>>]
    /\ setCalls = <<>>
    /\ posts = 0
    /\ lastPost = NoPost
    /\ inbound = 0
    /\ lastInbound = NoInbound

----------------------------------------------------------------------------
(* Session Reloader *)

SessionIds == 1..MaxSessions

\* the sessions that are active
Active(ss) == {s \in SessionIds : ss[s] = "active"}

\* the identifier the next new session gets
NextSessionId(ss) == CHOOSE s \in SessionIds : ss[s] = "none" /\ \A r \in SessionIds : ss[r] = "none" => s <= r

\* a reload() that, after closing the sessions, opens a fresh one for the new
\* configuration
ReloadAndRestart(ss, called) ==
    [threw |-> FALSE,
     sessions |-> [s \in SessionIds |->
                     IF s \in called THEN "closed"
                     ELSE IF \E r \in SessionIds : ss[r] = "none" /\ s = NextSessionId(ss)
                     THEN "active"
                     ELSE ss[s]]]

\* reload(), from its call to its completion: the sessions `called`, those
\* active at the call, are closed and nothing else changes; it creates no
\* session, and called with no active session it changes nothing
Reload(ss, called) ==
    [threw |-> FALSE,
     sessions |-> [s \in SessionIds |-> IF s \in called THEN "closed" ELSE ss[s]]]

\* a user-initiated interaction that starts a conversation: a new session
StartSession ==
    /\ \E s \in SessionIds : sessions[s] = "none"
    /\ sessions' = [sessions EXCEPT ![NextSessionId(sessions)] = "active"]
    /\ interactions' = interactions + 1
    /\ UNCHANGED <<pendingReloads, lastReload, watchVars, readerVars, openVars, webVars>>

\* the settings callback reaches `await claudeAgentService.reload()`: reload()
\* is called and control returns to the event loop
CallReload ==
    /\ reloads < MaxReloads
    /\ reloads' = reloads + 1
    /\ pendingReloads' = Append(pendingReloads, Active(sessions))
    /\ UNCHANGED <<now, claudeSettingsPath, dirExists, handle, watcherAlive, subs,
                   lastModTime, queue, callCount, lastCall, prompts, promptsOpen, last>>
    /\ UNCHANGED <<sessions, interactions, lastReload, readerVars, openVars, webVars>>

\* the closing that the oldest pending reload() delegated has ended: the
\* call completes and its awaiting callback resumes
CompleteReload ==
    /\ pendingReloads # <<>>
    /\ LET called == Head(pendingReloads)
           r == Reload(sessions, called)
       IN /\ sessions' = r.sessions
          /\ lastReload' = [before |-> called, threw |-> r.threw]
    /\ pendingReloads' = Tail(pendingReloads)
    /\ UNCHANGED <<interactions, watchVars, readerVars, openVars, webVars>>

SessionIdle ==
    /\ sessions = [s \in SessionIds |-> "none"]
    /\ interactions = 0
    /\ pendingReloads = <<>>
    /\ lastReload = [before |-> {}, threw |-> FALSE]

----------------------------------------------------------------------------
(* Change Watcher *)

\* the watch instances: one per watchFile call. "settings" is the registration
\* extension.ts makes, "db" a watchCCSwitchDatabase registration, "settings2" a
\* second watchClaudeSettings registration, made with a callback of its own
Watches == {"settings", "db", "settings2"}
RawKinds == {"create", "change", "delete"}
ChangeTypes == {"created", "modified", "deleted"}

debounceMs == 500

SettingsPath == "~/.claude/settings.json"
AltSettingsPath == "~/.claude/claude.json"
DbPath == "~/.cc-switch/cc-switch.db"

\* the constructor's choice of claudeSettingsPath: settings.json, or claude.json
\* when settings.json does not exist and claude.json does
ConstructorPath(settingsExists, altExists) ==
    IF ~settingsExists /\ altExists THEN AltSettingsPath ELSE SettingsPath

\* the service as its constructor leaves it, whichever of the two files
\* existed then; a file exists only in a directory that exists
Constructed ==
    \E settingsExists, altExists \in BOOLEAN :
       /\ (settingsExists \/ altExists) => dirExists["settings"]
       /\ claudeSettingsPath = ConstructorPath(settingsExists, altExists)

\* watchClaudeSettings / watchCCSwitchDatabase: the path each hands to watchFile
PathOf(w) == IF w = "db" THEN DbPath ELSE claudeSettingsPath

\* path.dirname(filePath): both settings files live in ~/.claude
DirOf(w) == IF w = "db" THEN "~/.cc-switch" ELSE "~/.claude"

\* one directory exists or not for all the watches under it
DirsConsistent(d) == \A v, w \in Watches : DirOf(v) = DirOf(w) => d[v] = d[w]

\* the changeType each of the three subscriptions passes to handleChange
ChangeTypeOf(raw) ==
    CASE raw = "create" -> "created"
      [] raw = "change" -> "modified"
      [] raw = "delete" -> "deleted"

\* outcome: "called" (callback invoked), "debounced" (handleChange returned early),
\* "unheard" (no live subscription: handleChange did not run)
NoEvent == [w |-> "none", raw |-> "none", outcome |-> "none"]
NoCall == [filePath |-> "none", changeType |-> "none", timestamp |-> 0]

FileChangeEvent(w, changeType, t) == [filePath |-> PathOf(w), changeType |-> changeType, timestamp |-> t]

\* a gate that also drops an event exactly debounceMs after the last accepted one
TooSoonInclusive(t, lastT) == t - lastT <= debounceMs

\* a gate whose window is half as long
TooSoonShortWindow(t, lastT) == t - lastT < 250

\* one last-accepted timestamp kept by the service for all its watches
LastModTimeShared(w, lmt) ==
    CHOOSE t \in {lmt[v] : v \in Watches} : \A v \in Watches : lmt[v] <= t

\* the lastModTime handleChange reads: the variable of its own watchFile call
LastModTimeOf(w, lmt) == lmt[w]

\* handleChange's gate: "ignore if too soon after last event"
TooSoon(t, lastT) == t - lastT < debounceMs

\* a disposable that stops nothing, like the one of the missing-directory branch
AfterDisposeNoop(alive, s) == [alive |-> alive, subs |-> s]

\* what the disposable's callback leaves of the watcher and of the three
\* subscriptions: watcher.dispose(), onDidCreate/onDidChange/onDidDelete.dispose()
AfterDispose(alive, s) == [alive |-> FALSE, subs |-> {}]

\* a callback that holds back reload() while an earlier prompt is unanswered
SettingsCallbackIfAcknowledged(p, open, r) ==
    [prompts |-> p + 1, promptsOpen |-> open + 1, reloads |-> IF open = 0 THEN r + 1 ELSE r]

\* the callback extension.ts registers on the settings watch:
\* showInformationMessage(...) (not awaited), then await claudeAgentService.reload()
SettingsCallback(p, open, r) ==
    [prompts |-> p + 1, promptsOpen |-> open + 1, reloads |-> r + 1]

\* a watchFile that creates its watcher without looking at the directory
WatchFileUnchecked(dirOk) == [handle |-> "watch", watcher |-> TRUE, subs |-> RawKinds]

\* what watchFile creates and returns: with no parent directory a warning
\* and `new vscode.Disposable(() => {})`, else a watcher with its three
\* subscriptions and the disposable that disposes them
WatchFile(dirOk) ==
    IF ~dirOk
    THEN [handle |-> "noop", watcher |-> FALSE, subs |-> {}]
    ELSE [handle |-> "watch", watcher |-> TRUE, subs |-> RawKinds]

\* extension.ts: if (ccSwitchService.isInstalled()) watchClaudeSettings(...)
\* (watchCCSwitchDatabase is public API with no such guard)
Register(w) ==
    /\ UNCHANGED <<claudeSettingsPath, readerVars, openVars, webVars, sessionVars>>
    /\ handle[w] = "none"
    /\ (w = "settings") => IsInstalled(store)
    /\ LET made == WatchFile(dirExists[w])
       IN /\ handle' = [handle EXCEPT ![w] = made.handle]
          /\ IF made.watcher
             THEN /\ watcherAlive' = [watcherAlive EXCEPT ![w] = TRUE]
                  /\ subs' = [subs EXCEPT ![w] = made.subs]
                  /\ lastModTime' = [lastModTime EXCEPT ![w] = 0]
             ELSE UNCHANGED <<watcherAlive, subs, lastModTime>>
    /\ UNCHANGED <<now, dirExists, queue, callCount, lastCall, prompts, promptsOpen, reloads, last>>

\* the returned Disposable's dispose(); vscode.Disposable runs its callback once
Dispose(w) ==
    /\ UNCHANGED <<claudeSettingsPath, readerVars, openVars, webVars, sessionVars>>
    /\ handle[w] \in {"watch", "noop", "disposed"}
    /\ handle' = [handle EXCEPT ![w] = "disposed"]
    /\ IF handle[w] = "watch"
       THEN /\ watcherAlive' = [watcherAlive EXCEPT ![w] = AfterDispose(watcherAlive[w], subs[w]).alive]
            /\ subs' = [subs EXCEPT ![w] = AfterDispose(watcherAlive[w], subs[w]).subs]
       ELSE UNCHANGED <<watcherAlive, subs>>
    /\ UNCHANGED <<now, dirExists, lastModTime, queue, callCount, lastCall, prompts, promptsOpen, reloads, last>>

\* the owning tool (or the user) creates the parent directory of a watched file
MkDir(w) ==
    /\ UNCHANGED <<claudeSettingsPath, readerVars, openVars, webVars, sessionVars>>
    /\ ~dirExists[w]
    /\ dirExists' = [v \in Watches |-> IF DirOf(v) = DirOf(w) THEN TRUE ELSE dirExists[v]]
    /\ UNCHANGED <<now, handle, watcherAlive, subs, lastModTime, queue,
                   callCount, lastCall, prompts, promptsOpen, reloads, last>>

\* the filesystem reports a create/modify/delete of a watched file to the host
FsEvent(w, raw) ==
    /\ UNCHANGED <<claudeSettingsPath, readerVars, openVars, webVars, sessionVars>>
    /\ dirExists[w]
    /\ Len(queue) < MaxQueue
    /\ queue' = Append(queue, [w |-> w, raw |-> raw])
    /\ UNCHANGED <<now, dirExists, handle, watcherAlive, subs, lastModTime,
                   callCount, lastCall,
                   prompts, promptsOpen, reloads, last>>

\* whether the host's next raw event reaches handleChange of watch w
Listening(w, raw) == watcherAlive[w] /\ raw \in subs[w]

\* the host delivers its oldest raw event: the subscription of its kind, when
\* alive, runs handleChange(uri, changeType). handleChange reads the clock for
\* the gate (Date.now()), logs, reads it again for the event (new Date()) and
\* calls the callback, which it does not await
Deliver ==
    /\ UNCHANGED <<claudeSettingsPath, readerVars, openVars, webVars>>
    /\ UNCHANGED <<sessions, interactions, lastReload>>
    /\ queue # <<>>
    /\ LET w == Head(queue).w
           raw == Head(queue).raw
       IN /\ queue' = Tail(queue)
          /\ IF ~Listening(w, raw)
             THEN /\ last' = [w |-> w, raw |-> raw, outcome |-> "unheard"]
                  /\ UNCHANGED <<now, lastModTime, callCount, lastCall, prompts, promptsOpen,
                                 reloads, pendingReloads>>
             ELSE IF TooSoon(now, LastModTimeOf(w, lastModTime))
             THEN /\ last' = [w |-> w, raw |-> raw, outcome |-> "debounced"]
                  /\ UNCHANGED <<now, lastModTime, callCount, lastCall, prompts, promptsOpen,
                                 reloads, pendingReloads>>
             ELSE /\ lastModTime' = [lastModTime EXCEPT ![w] = now]
                  /\ callCount' = [callCount EXCEPT ![w] = @ + 1]
                  /\ \E d \in ClockAdvances :
                        /\ now + d <= StartTime + MaxElapsed
                        /\ now' = now + d
                        /\ lastCall' = [lastCall EXCEPT ![w] =
                                           FileChangeEvent(w, ChangeTypeOf(raw), now')]
                  /\ last' = [w |-> w, raw |-> raw, outcome |-> "called"]
                  /\ IF w = "settings"
                     THEN LET host == SettingsCallback(prompts, promptsOpen, reloads)
                          IN /\ prompts' = host.prompts
                             /\ promptsOpen' = host.promptsOpen
                             /\ reloads' = host.reloads
                             /\ pendingReloads' = IF host.reloads > reloads
                                                  THEN Append(pendingReloads, Active(sessions))
                                                  ELSE pendingReloads
                     ELSE UNCHANGED <<prompts, promptsOpen, reloads, pendingReloads>>
    /\ UNCHANGED <<dirExists, handle, watcherAlive, subs>>

\* the user presses OK on, or dismisses, one informational prompt
AnswerPrompt ==
    /\ UNCHANGED <<claudeSettingsPath, readerVars, openVars, webVars, sessionVars>>
    /\ promptsOpen > 0
    /\ promptsOpen' = promptsOpen - 1
    /\ UNCHANGED <<now, dirExists, handle, watcherAlive, subs, lastModTime, queue,
                   callCount, lastCall, prompts, reloads, last>>

Tick(d) ==
    /\ UNCHANGED <<claudeSettingsPath, readerVars, openVars, webVars, sessionVars>>
    /\ now + d <= StartTime + MaxElapsed
    /\ now' = now + d
    /\ UNCHANGED <<dirExists, handle, watcherAlive, subs, lastModTime, queue,
                   callCount, lastCall, prompts, promptsOpen, reloads, last>>

WatchIdle ==
    /\ now = StartTime
    /\ handle = [w \in Watches |-> "none"]
    /\ watcherAlive = [w \in Watches |-> FALSE]
    /\ subs = [w \in Watches |-> {}]
    /\ lastModTime = [w \in Watches |-> 0]
    /\ queue = <<>>
    /\ callCount = [w \in Watches |-> 0]
    /\ lastCall = [w \in Watches |-> NoCall]
    /\ prompts = 0
    /\ promptsOpen = 0
    /\ reloads = 0
    /\ last = NoEvent

----------------------------------------------------------------------------
(* Specifications *)

\* the extension activated: nothing watched yet, the store installed or not
Init ==
    /\ WatchIdle
    /\ dirExists \in {d \in [Watches -> BOOLEAN] : DirsConsistent(d)}
    /\ ReaderIdle
    /\ store \in {AbsentStore, [file |-> "ok", table |-> EmptyTable]}
    /\ IsInstalled(store) => dirExists["db"]
    /\ OpenIdle
    /\ WebIdle
    /\ SessionIdle
    /\ Constructed

\* the watch instances a specification exercises
Watched == {"settings"}

Next ==
    \/ \E w \in Watched : Register(w)
    \/ \E w \in Watched : Dispose(w)
    \/ \E w \in Watched : MkDir(w)
    \/ \E w \in Watched, raw \in RawKinds : FsEvent(w, raw)
    \/ Deliver
    \/ AnswerPrompt
    \/ \E d \in TickSteps : Tick(d)

Spec == Init /\ [][Next]_vars

\* the Provider Reader in front of any store the owning tool may have left
ReaderInit ==
    /\ ReaderIdle
    /\ store \in {AbsentStore} \cup BrokenStores \cup {[file |-> "ok", table |-> t] : t \in Tables}
    /\ WatchIdle
    /\ dirExists = [w \in Watches |-> FALSE]
    /\ OpenIdle
    /\ WebIdle
    /\ SessionIdle
    /\ Constructed

ReaderNext ==
    \/ CallIsInstalled
    \/ CallGetProviders
    \/ CallGetActiveProvider
    \/ CallGetCCSwitchStatus
    \/ \E i \in Ids : ToggleActive(i)
    \/ \E i \in Ids : DeleteRow(i)
    \/ \E st \in {AbsentStore, [file |-> "ok", table |-> EmptyTable]} \cup BrokenStores :
          ReplaceFile(st)

\* every watch instance registered side by side, the directories and
\* settings.json in place
WatchesInit ==
    /\ Init
    /\ IsInstalled(store)
    /\ \A w \in Watches : dirExists[w]
    /\ claudeSettingsPath = SettingsPath

\* the files are modified in place, and the event loop turns every 300 ms
WatchesNext ==
    \/ \E w \in Watches : Register(w)
    \/ \E w \in Watches : FsEvent(w, "change")
    \/ Deliver
    \/ Tick(300)

SpecWatches == WatchesInit /\ [][WatchesNext]_vars

SpecReader == ReaderInit /\ [][ReaderNext]_vars

\* the launch handler on any platform, in front of an absent store
OpenInit ==
    /\ platform \in Platforms
    /\ opens = <<>>
    /\ uncaught = 0
    /\ logged = [info |-> 0, warn |-> 0, error |-> 0]
    /\ WatchIdle
    /\ dirExists = [w \in Watches |-> FALSE]
    /\ ReaderIdle
    /\ store = AbsentStore
    /\ WebIdle
    /\ SessionIdle
    /\ Constructed

OpenNext ==
    \/ \E spawn \in {"returns", "throws"} : HandleOpenCCSwitch(spawn)
    \/ Respond
    \/ \E k \in 1..MaxOpens, end \in LaunchEnds : ExecCallback(k, end)

SpecOpen == OpenInit /\ [][OpenNext]_vars

\* the Presentation Host after construction
WebInit ==
    /\ WebIdle
    /\ WatchIdle
    /\ dirExists = [w \in Watches |-> FALSE]
    /\ ReaderIdle
    /\ store = AbsentStore
    /\ OpenIdle
    /\ SessionIdle
    /\ Constructed

WebNext ==
    \/ \E s \in Surfaces : ResolveWebviewView(s)
    \/ \E p \in Payloads : PostMessage(p)
    \/ \E h \in Handlers : SetMessageHandler(h)
    \/ \E s \in Surfaces, m \in Inbound : ReceiveMessage(s, m)

SpecWeb == WebInit /\ [][WebNext]_vars

\* the Session Reloader between the user, who starts conversations, and the
\* host, which calls reload()
ReloadInit ==
    /\ SessionIdle
    /\ WatchIdle
    /\ dirExists = [w \in Watches |-> FALSE]
    /\ Constructed
    /\ ReaderIdle
    /\ store = AbsentStore
    /\ OpenIdle
    /\ WebIdle

ReloadNext ==
    \/ StartSession
    \/ CallReload
    \/ CompleteReload

SpecReload == ReloadInit /\ [][ReloadNext]_vars

----------------------------------------------------------------------------
(* Claims about the Change Watcher *)

\* a step in which the host hands the raw event `raw` to watch instance w while
\* w is registered and not disposed
Handled(w, raw) ==
    /\ queue # <<>>
    /\ Head(queue) = [w |-> w, raw |-> raw]
    /\ queue' = Tail(queue)
    /\ handle[w] = "watch"

\* the change kind the claim expects for each raw event kind
KindOf(raw) == IF raw = "create" THEN "created" ELSE IF raw = "change" THEN "modified" ELSE "deleted"

\* C1: a raw event handed to a watch instance is delivered iff at least 500 ms
\* have passed between the hand-over of the last accepted event of that
\* instance and its own (the first event is always delivered); an accepted
\* event invokes the callback exactly once, with a change event of the raw
\* event's kind, stamped no earlier than the hand-over, and a dropped event
\* invokes it zero times.
C1_DebounceGate ==
    [][\A w \in Watches, raw \in RawKinds :
          Handled(w, raw) =>
             IF callCount[w] = 0 \/ now - lastModTime[w] >= 500
             THEN /\ callCount'[w] = callCount[w] + 1
                  /\ lastModTime'[w] = now
                  /\ lastCall'[w].filePath = PathOf(w)
                  /\ lastCall'[w].changeType = KindOf(raw)
                  /\ lastCall'[w].timestamp >= now
             ELSE /\ callCount'[w] = callCount[w]
                  /\ lastModTime'[w] = lastModTime[w]
                  /\ lastCall'[w] = lastCall[w]]_vars

\* C1 witness: a second event 600 ms or more after the first was delivered, and
\* an event 200 ms after that one was dropped
C1_Witness ==
    /\ callCount["settings"] = 2
    /\ last = [w |-> "settings", raw |-> "change", outcome |-> "debounced"]
    /\ now - lastModTime["settings"] = 200

\* C2: once the disposable of a watch has been disposed, no raw event invokes
\* its callback any more, whether the event was observed before or after the
\* disposal, and the watch stays disposed.
C2_DisposedIsSilent ==
    [][\A w \in Watches :
          handle[w] = "disposed" =>
             /\ callCount'[w] = callCount[w]
             /\ lastCall'[w] = lastCall[w]
             /\ handle'[w] = "disposed"]_vars

\* C2 witness: a raw event of a watch that had delivered events before was
\* handed over after the disposal, long enough after the last accepted event
\* to pass the gate, and reached no callback
C2_Witness ==
    /\ handle["settings"] = "disposed"
    /\ callCount["settings"] = 1
    /\ last = [w |-> "settings", raw |-> "change", outcome |-> "unheard"]
    /\ now - lastModTime["settings"] >= 500

\* C10: every change event delivered for the settings file shows one prompt
\* and calls reload() once, whatever the kind of the change and whether or not
\* the user has answered or dismissed any prompt: the prompts shown and the
\* reload() calls both count the delivered events.
C10_ReloadPerDeliveredEvent ==
    /\ prompts = callCount["settings"]
    /\ reloads = callCount["settings"]

\* C10 witness: a second settings event was delivered, and reload() called for
\* it, while the prompt of the first was still unanswered
C10_Witness ==
    /\ callCount["settings"] = 2
    /\ reloads = 2
    /\ promptsOpen = 2
    /\ lastCall["settings"].changeType = "deleted"

\* C14: a registration made while the parent directory of the file is missing
\* returns a disposable, creates no watcher and no subscription, and its
\* callback is never invoked afterwards, whatever is created later: the
\* registration stays without a watcher until it is disposed.
C14_MissingDirectoryIsInert ==
    [][\A w \in Watches :
          /\ (handle[w] = "none" /\ handle'[w] # "none" /\ ~dirExists[w]) =>
                /\ handle'[w] = "noop"
                /\ ~watcherAlive'[w]
                /\ subs'[w] = {}
          /\ handle[w] = "noop" =>
                /\ handle'[w] \in {"noop", "disposed"}
                /\ ~watcherAlive'[w]
                /\ subs'[w] = {}
                /\ callCount'[w] = callCount[w]
                /\ lastCall'[w] = lastCall[w]]_vars

\* C14 witness: the settings watch was registered without its directory, the
\* directory and the file were created afterwards, and the creation reached
\* no callback
C14_Witness ==
    /\ handle["settings"] = "noop"
    /\ dirExists["settings"]
    /\ last = [w |-> "settings", raw |-> "create", outcome |-> "unheard"]
    /\ callCount["settings"] = 0
    /\ ~watcherAlive["settings"]

\* C12 as stated: the debounce is leading-edge. Every event handed over less
\* than 500 ms after the delivered head of a burst is suppressed and leaves
\* the head as the event on record; and two invocations of the callback of
\* one watch instance, as timed by the events they are given, are at least
\* 500 ms apart.
C12_InvocationsApart ==
    [][\A w \in Watches :
          /\ \A raw \in RawKinds :
                (Handled(w, raw) /\ callCount[w] > 0 /\ now - lastModTime[w] < 500) =>
                   /\ callCount'[w] = callCount[w]
                   /\ lastCall'[w] = lastCall[w]
          /\ (callCount'[w] = callCount[w] + 1 /\ callCount[w] > 0) =>
                lastCall'[w].timestamp - lastCall[w].timestamp >= 500]_vars

\* C12, amended: the debounce is leading-edge. An event that is delivered is
\* delivered in the very call that hands it over; every event handed over
\* less than 500 ms after the hand-over of the delivered head of a burst is
\* suppressed and leaves the head as the event on record, so the last event
\* of a burst is never the one reported; and the hand-overs of two delivered
\* events of one watch instance are at least 500 ms apart, while the
\* invocations themselves follow their hand-over and may be closer.
C12_LeadingEdge ==
    [][\A w \in Watches :
          /\ \A raw \in RawKinds :
                (Handled(w, raw) /\ callCount[w] > 0 /\ now - lastModTime[w] < 500) =>
                   /\ callCount'[w] = callCount[w]
                   /\ lastCall'[w] = lastCall[w]
          /\ callCount'[w] # callCount[w] =>
                /\ callCount'[w] = callCount[w] + 1
                /\ \E raw \in RawKinds : Handled(w, raw) /\ lastCall'[w].changeType = KindOf(raw)
                /\ lastModTime'[w] = now
                /\ lastCall'[w].timestamp >= lastModTime'[w]
                /\ callCount[w] > 0 => lastModTime'[w] - lastModTime[w] >= 500]_vars

\* C12 witness: the creation of the file opened a burst and was delivered,
\* its callback invoked 100 ms after the hand-over; the deletion that closed
\* the burst 400 ms after the creation was suppressed, and the creation is
\* still the only event on record
C12_Witness ==
    /\ callCount["settings"] = 1
    /\ lastCall["settings"].changeType = "created"
    /\ lastCall["settings"].timestamp = lastModTime["settings"] + 100
    /\ last = [w |-> "settings", raw |-> "delete", outcome |-> "debounced"]
    /\ now - lastModTime["settings"] = 400

\* C13: debounce state is per watch instance. When an event is handed to one
\* watch, whether it is delivered is decided by the time since the hand-over
\* of that watch's own last delivered event and by nothing else; the callback counts, the
\* events on record and the debounce state of the other watches (another
\* file, or another registration on the same file) do not change, and only an
\* event of the host's settings watch runs the host's prompt-and-reload
\* callback.
C13_PerWatchDebounce ==
    [][\A w \in Watches, raw \in RawKinds :
          Handled(w, raw) =>
             /\ (callCount'[w] = callCount[w] + 1) <=>
                   (callCount[w] = 0 \/ now - lastModTime[w] >= 500)
             /\ callCount'[w] \in {callCount[w], callCount[w] + 1}
             /\ \A v \in Watches \ {w} :
                   /\ callCount'[v] = callCount[v]
                   /\ lastCall'[v] = lastCall[v]
                   /\ lastModTime'[v] = lastModTime[v]
             /\ w # "settings" => (prompts' = prompts /\ reloads' = reloads)]_vars

\* C13 witness: both registrations on the settings file delivered the same
\* instant's event, and the database watch delivered one 300 ms later, inside
\* the window of the other two
C13_Witness ==
    /\ \A w \in Watches : callCount[w] = 1
    /\ lastModTime["settings2"] = lastModTime["settings"]
    /\ lastModTime["db"] - lastModTime["settings"] = 300
    /\ last = [w |-> "db", raw |-> "change", outcome |-> "called"]
    /\ reloads = 1

----------------------------------------------------------------------------
(* Claims about the Provider Reader *)

\* C4: every connection getProviders() opens is closed before the call
\* returns, on every exit path: between calls no connection is open.
C4_NoConnectionHeld == openConns = 0

\* C4 witness: a read opened the database, its query failed, and the call
\* has returned
C4_Witness ==
    /\ ret.op = "getProviders"
    /\ store.file = "notable"
    /\ GetProviders(store).opened = 1

\* C5: isInstalled(), getProviders() and getActiveProvider() never throw; with
\* no database file they return false, an empty sequence and none, and with a
\* file that cannot be opened or queried getProviders() returns an empty
\* sequence and getActiveProvider() none.
C5_ReaderNeverThrows ==
    /\ ~ret.threw
    /\ (ret.op = "isInstalled" /\ store.file = "absent") => ~ret.bool
    /\ (ret.op = "getProviders" /\ store.file # "ok") => ret.list = <<>>
    /\ (ret.op = "getActiveProvider" /\ store.file # "ok") => ret.one = NoProvider

\* C5 witness: getActiveProvider() has returned on a file that cannot be opened
C5_Witness ==
    /\ ret.op = "getActiveProvider"
    /\ store.file = "unopenable"
    /\ ret.one = NoProvider

\* the identifiers of the rows flagged active
ActiveIds(table) == {i \in PresentIds(table) : table[i].is_active = 1}

\* C6: on a readable store getProviders() returns one record per row, in
\* ascending identifier order, and getActiveProvider() returns the record of
\* the smallest identifier among the rows flagged active, or none when no
\* row is flagged; several active rows are no error.
C6_OrderAndActive ==
    store.file = "ok" =>
       /\ ret.op = "getProviders" =>
             /\ Len(ret.list) = Cardinality(PresentIds(store.table))
             /\ {ret.list[k].id : k \in 1..Len(ret.list)} = PresentIds(store.table)
             /\ \A k \in 1..(Len(ret.list) - 1) : ret.list[k].id < ret.list[k + 1].id
       /\ ret.op = "getActiveProvider" =>
             IF ActiveIds(store.table) = {}
             THEN ret.one = NoProvider
             ELSE /\ ret.one.isActive
                  /\ ret.one.id \in ActiveIds(store.table)
                  /\ \A i \in ActiveIds(store.table) : ret.one.id <= i

\* C6 witness: two rows are flagged active and getActiveProvider() has
\* returned the first
C6_Witness ==
    /\ store.file = "ok"
    /\ Cardinality(ActiveIds(store.table)) = 2
    /\ ret.op = "getActiveProvider"
    /\ ret.one.id = 1

\* C7: a row whose models column is not valid JSON gives a record without a
\* mapping, a row without a name gives a record with the placeholder name,
\* and getProviders() still returns a record for every row.
C7_RowDefectsTolerated ==
    (store.file = "ok" /\ ret.op = "getProviders") =>
       /\ Len(ret.list) = Cardinality(PresentIds(store.table))
       /\ \A k \in 1..Len(ret.list) :
             LET row == store.table[ret.list[k].id]
             IN /\ row.models = ModelsInvalid => ret.list[k].models = UNDEFINED
                /\ row.models = ModelsValid => ret.list[k].models # UNDEFINED
                /\ row.name = NULL => ret.list[k].name = "Unknown"
                /\ row.name # NULL => ret.list[k].name = row.name

\* C7 witness: the first row has a malformed mapping and no name, and the
\* read returned its record and the record of the row after it
C7_Witness ==
    /\ store.file = "ok"
    /\ PresentIds(store.table) = {1, 2}
    /\ store.table[1].models = ModelsInvalid
    /\ store.table[1].name = NULL
    /\ ret.op = "getProviders"
    /\ Len(ret.list) = 2
    /\ ret.list[1].name = "Unknown"
    /\ ret.list[2].id = 2

\* secret keys the owning tool may store in the api_key column
KeyTexts == {NULL, "", "sk-1", "sk-2"}

\* the store st with the api_key of its rows replaced by those of k
WithKeys(st, k) ==
    [file |-> st.file,
     table |-> [i \in Ids |-> IF st.table[i] = NoRow THEN NoRow
                              ELSE [st.table[i] EXCEPT !.api_key = k[i]]]]

\* C15: the status response has an active provider only when installed is
\* true; with no database file the handler does not read the store and the
\* active provider is null; the active provider carries the identifier, the
\* name and the base URL and nothing else; and every store that differs from
\* the one read only in the secret keys of its rows gets the same response.
C15_StatusHidesKeys ==
    ret.op = "getCCSwitchStatus" =>
       /\ ~ret.threw
       /\ ret.status.installed = (store.file # "absent")
       /\ ret.status.activeProvider # NullProvider => ret.status.installed
       /\ store.file = "absent" =>
             /\ ret.reads = 0
             /\ ret.status.activeProvider = NullProvider
       /\ DOMAIN ret.status.activeProvider = {"id", "name", "baseUrl"}
       /\ \A k \in [Ids -> KeyTexts] :
             HandleGetCCSwitchStatus(WithKeys(store, k)).response = ret.status

\* C15 witness: the status was asked for while the second provider, which
\* has a secret key, was the active one, and the response names it
C15_Witness ==
    /\ ret.op = "getCCSwitchStatus"
    /\ store.file = "ok"
    /\ ActiveIds(store.table) = {2}
    /\ store.table[2].api_key = "sk-1"
    /\ ret.status = [type |-> "get_ccswitch_status_response", installed |-> TRUE,
                     activeProvider |-> [id |-> 2, name |-> "A", baseUrl |-> UNDEFINED]]

----------------------------------------------------------------------------
(* Claims about the launch of the companion application *)

\* C3: when the launch command fails, openCCSwitch() rejects with the
\* user-facing message, so handleOpenCCSwitch answers success=false with
\* that message; it answers success=true only when the launch did not fail.
C3_LaunchFailureIsReported ==
    \A k \in 1..Len(opens) :
       (opens[k].responded /\ opens[k].launch = "failed") =>
          /\ ~opens[k].response.success
          /\ opens[k].response.error = LaunchFailedMessage

----------------------------------------------------------------------------
(* Claims about the Presentation Host *)

BoundSurfaces == {s \in Surfaces : listeners[s] > 0}

\* C8: postMessage(payload) throws and sends nothing iff no surface has been
\* bound yet; otherwise it hands the bound surface exactly one envelope
\* {type: "from-extension", message: payload}, the payload unchanged.
C8_PostMessageEnvelope ==
    [][posts' = posts + 1 =>
          IF BoundSurfaces = {}
          THEN /\ lastPost'.threw
               /\ outbox' = outbox
          ELSE /\ ~lastPost'.threw
               /\ webview \in BoundSurfaces
               /\ outbox' = [outbox EXCEPT ![webview] =
                                 Append(@, [type |-> "from-extension",
                                            message |-> lastPost'.payload])]]_vars

\* C8 witness: a first postMessage threw before any surface was bound, and
\* after the binding a second one delivered the envelope of {foo:1}
C8_Witness ==
    /\ posts = 2
    /\ ~lastPost.threw
    /\ outbox["view1"] = <<[type |-> "from-extension", message |-> "{foo:1}"]>>
    /\ outbox["view2"] = <<>>

\* C9: a message received from a surface instance that was bound once (the
\* host resolves every instance once) is forwarded exactly once, to the
\* handler of the most recent setMessageHandler call and to no earlier one
\* (to nobody before the first call): last writer wins, no fan-out. The
\* other surface may have been bound any number of times.
C9_LastHandlerWins ==
    [][\A s \in Surfaces, m \in Inbound :
          (ReceiveMessage(s, m) /\ listeners[s] = 1) =>
             IF setCalls = <<>>
             THEN forwarded' = forwarded
             ELSE forwarded' = [forwarded EXCEPT ![setCalls[Len(setCalls)]] =
                                   Append(@, m)]]_vars

\* C9 witness: h1 was set, then h2, and a message from view1, bound once, went
\* to h2 alone
C9_Witness ==
    /\ setCalls = <<"h1", "h2">>
    /\ listeners = [s \in Surfaces |-> IF s = "view1" THEN 1 ELSE 0]
    /\ inbound = 1
    /\ forwarded["h1"] = <<>>
    /\ forwarded["h2"] = <<lastInbound>>

----------------------------------------------------------------------------
(* Claims about the Session Reloader *)

\* C11: when a reload() call completes, every session that was active when
\* it was called is closed, no other session has changed and none was
\* created, and the call did not throw; called with no active session it
\* changes nothing. The call itself changes no session, and a session comes
\* into being only in a user-initiated interaction.
C11_ReloadClosesAndCreatesNothing ==
    [][/\ Len(pendingReloads') < Len(pendingReloads) =>
             LET called == Head(pendingReloads)
             IN /\ ~lastReload'.threw
                /\ lastReload'.before = called
                /\ \A s \in SessionIds :
                      sessions'[s] = IF s \in called THEN "closed" ELSE sessions[s]
                /\ called = {} => sessions' = sessions
       /\ reloads' = reloads + 1 =>
             /\ sessions' = sessions
             /\ pendingReloads' = Append(pendingReloads, Active(sessions))
       /\ \A s \in SessionIds :
             (sessions[s] = "none" /\ sessions'[s] # "none") =>
                /\ sessions'[s] = "active"
                /\ interactions' = interactions + 1
                /\ reloads' = reloads
                /\ pendingReloads' = pendingReloads]_vars

\* C11 witness: a first reload() found no session and changed nothing; a
\* second one was called with two sessions active, the user started a third
\* before it completed, and on completion the two are closed and the third
\* is still active
C11_Witness ==
    /\ reloads = 2
    /\ pendingReloads = <<>>
    /\ lastReload = [before |-> {1, 2}, threw |-> FALSE]
    /\ sessions = [s \in SessionIds |-> IF s \in {1, 2} THEN "closed"
                                        ELSE IF s = 3 THEN "active" ELSE "none"]
    /\ interactions = 3

====
